---- MODULE Spec2Model ----
\* First-Flame seeding: the two Modal workers ensure_flame_state (three
\* upserts into the public schema) and update_flame_status (quest upsert and
\* ensure_first_flame RPC in the ritual schema, day-1 content check,
\* broadcast), run against one remote database.
EXTENDS Integers, Sequences, FiniteSets, Bags, TLC

\* ------------------------------------------------------------------ bounds
MaxRuns == 2
MaxUsers == 2

Runs == 1..MaxRuns
Users == 1..MaxUsers

\* --------------------------------------------------------------- constants
FIRST_FLAME_SLUG == "first-flame-ritual"
BROADCAST_CHANNEL == "flame_status"
OTHER_SLUG == "other-quest"

\* The schema a supabase client addresses unless told otherwise, and the
\* schema update_flame_status selects with sb.schema(RITUAL_SCHEMA).
PUBLIC_SCHEMA == "public"
RITUAL_SCHEMA == "ritual"

Schemas == {PUBLIC_SCHEMA, RITUAL_SCHEMA}

\* How a round trip that writes or publishes can end: it returns, the server
\* rejects it (postgrest APIError), anything else is raised before the
\* server carried the request out (transport, an interruption), or it is
\* "lost": the server carried the request out, and the client raised while
\* waiting for the answer (a read timeout, an interruption), which is no
\* APIError. No handler around a write or a publish tells an interruption
\* from the other exceptions that are no APIError.
Outcomes == {"ok", "api", "other", "lost"}

\* How the download can end: it returns, it raises an APIError, it raises
\* another Exception, or the run is interrupted while it waits: a
\* BaseException that is no Exception (KeyboardInterrupt, SystemExit) is
\* raised there, which `except Exception` does not catch.
ReadOutcomes == {"ok", "api", "other", "interrupt"}

\* The server carried the request out.
Applied(o) == o \in {"ok", "lost"}

\* What an exception says of itself: the .message of an APIError (None when
\* the error body has none), str(exc) of any other exception ('' when it was
\* built without arguments). NoText stands for None and for ''.
NoText == ""
Texts == {NoText, "text"}

Raised(type, text) == [type |-> type, text |-> text]

NoExc == Raised("none", NoText)

\* quests, participants, progress: the tables of the remote database, each
\* once per schema;
\* events: the events delivered on the broadcast channel;
\* configured: SUPABASE_URL and SUPABASE_SERVICE_ROLE_KEY are in the environment;
\* pc, kind, user, quest_id: each run's position, worker, argument and local;
\* exc: the exception bound in the except handler a run is in;
\* calls, result: each run's remote calls so far and its outcome;
\* retry_of: the run whose exception made the platform start this run again
\* (0 for a first invocation);
\* serial, storeAtStart, storeAtEnd: whether invocations run one at a time,
\* and then the store each run found and left;
\* traced, fetched: whether downloads are traced, and then what each run's
\* download of the day-1 definition met.
VARIABLES quests, participants, progress, events, configured,
          pc, kind, user, quest_id, exc, calls, result, retry_of,
          serial, storeAtStart, storeAtEnd, traced, fetched

vars == <<quests, participants, progress, events, configured,
          pc, kind, user, quest_id, exc, calls, result, retry_of,
          serial, storeAtStart, storeAtEnd, traced, fetched>>

\* ------------------------------------------------------------ remote store
\* A table is the bag of its rows: rows have no order, and a table without a
\* uniqueness constraint could hold the same row twice.

QuestPayload ==
  [slug |-> FIRST_FLAME_SLUG, title |-> "First Flame Ritual", type |-> "ritual",
   realm |-> FIRST_FLAME_SLUG, is_pinned |-> TRUE]

ParticipantPayload(q, u) == [quest_id |-> q, user_id |-> u, role |-> "participant"]

ProgressPayload(q, u) ==
  [quest_id |-> q, user_id |-> u, current_day_target |-> 1, is_quest_complete |-> FALSE]

Conflicts(old, row, keys) == \A k \in keys : old[k] = row[k]

Hits(table, row, keys) == {x \in BagToSet(table) : Conflicts(x, row, keys)}

Merge(old, row) == [f \in DOMAIN old |-> IF f \in DOMAIN row THEN row[f] ELSE old[f]]

Insert(table, row) == table (+) SetToBag({row})

\* upsert(row, on_conflict=keys) with the default merge-duplicates resolution:
\* a row matching on the conflict target is overwritten with the payload's
\* columns, otherwise `inserted` (the payload with its generated columns) is
\* added. The result holds the new table and the rows written (what
\* returning="representation" sends back).
Upsert(table, row, keys, inserted) ==
  IF Hits(table, row, keys) # {}
    THEN [table |-> BagOfAll(LAMBDA x : IF Conflicts(x, row, keys) THEN Merge(x, row) ELSE x,
                             table),
          data |-> {Merge(x, row) : x \in Hits(table, row, keys)}]
    ELSE [table |-> Insert(table, inserted), data |-> {inserted}]

\* The quests table generates the id of a new row.
NewQuestRow(table) == QuestPayload @@ [id |-> BagCardinality(table) + 1]

\* Mutation: the quest write without its conflict target, a plain insert.
UpsertQuestInserts(table) ==
  [table |-> Insert(table, NewQuestRow(table)), data |-> {NewQuestRow(table)}]

\* Mutation: the quest write as delete-and-insert (a REPLACE), which gives the
\* row a new id every time.
UpsertQuestReplaces(table) ==
  LET kept == [x \in {y \in BagToSet(table) : y.slug # FIRST_FLAME_SLUG} |-> table[x]]
      ids == {x.id : x \in BagToSet(table)} \cup {0}
      new == QuestPayload @@ [id |-> (CHOOSE m \in ids : \A k \in ids : k <= m) + 1]
  IN [table |-> Insert(kept, new), data |-> {new}]

UpsertQuest(table) == Upsert(table, QuestPayload, {"slug"}, NewQuestRow(table))

\* Mutation: the participant write without its conflict target.
UpsertParticipantInserts(table, q, u) ==
  [table |-> Insert(table, ParticipantPayload(q, u)), data |-> {ParticipantPayload(q, u)}]

UpsertParticipant(table, q, u) ==
  Upsert(table, ParticipantPayload(q, u), {"quest_id", "user_id"}, ParticipantPayload(q, u))

\* Mutation: the progress write without its conflict target.
UpsertProgressInserts(table, q, u) ==
  [table |-> Insert(table, ProgressPayload(q, u)), data |-> {ProgressPayload(q, u)}]

UpsertProgress(table, q, u) ==
  Upsert(table, ProgressPayload(q, u), {"quest_id", "user_id"}, ProgressPayload(q, u))

\* The stored procedure ensure_first_flame(_quest_id, _user_id): one atomic
\* call that seeds the participant and the progress row when absent and
\* leaves existing rows as they are.
InsertIfAbsent(table, row, keys) ==
  IF Hits(table, row, keys) # {} THEN table ELSE Insert(table, row)

EnsureFirstFlame(parts, prog, q, u) ==
  [participants |-> InsertIfAbsent(parts, ParticipantPayload(q, u), {"quest_id", "user_id"}),
   progress |-> InsertIfAbsent(prog, ProgressPayload(q, u), {"quest_id", "user_id"})]

\* The database: every table of every schema.
Store == [quests |-> quests, participants |-> participants, progress |-> progress]

EmptyTables == [quests |-> EmptyBag, participants |-> EmptyBag, progress |-> EmptyBag]

\* The same tables in every schema.
Everywhere(tables) ==
  [quests |-> [s \in Schemas |-> tables.quests],
   participants |-> [s \in Schemas |-> tables.participants],
   progress |-> [s \in Schemas |-> tables.progress]]

EmptyStore == Everywhere(EmptyTables)

\* The tables of one schema of a database, and the database with the tables
\* of one schema replaced.
In(store, schema) ==
  [quests |-> store.quests[schema], participants |-> store.participants[schema],
   progress |-> store.progress[schema]]

With(store, schema, tables) ==
  [quests |-> [store.quests EXCEPT ![schema] = tables.quests],
   participants |-> [store.participants EXCEPT ![schema] = tables.participants],
   progress |-> [store.progress EXCEPT ![schema] = tables.progress]]

\* The schema each worker's table and rpc calls go to.
SchemaOf(k) == IF k = "ufs" THEN RITUAL_SCHEMA ELSE PUBLIC_SCHEMA

\* ------------------------------------------------------- day-1 definition
\* A JSON value, as far as Python truthiness reads it.
JList(n) == [t |-> "list", n |-> n]
JNum(n) == [t |-> "num", n |-> n]
JNull == [t |-> "null", n |-> 0]

Truthy(v) ==
  CASE v.t = "list" -> v.n > 0
    [] v.t = "num" -> v.n # 0
    [] OTHER -> FALSE

\* The object stored at 5-day/day-1.json: absent, bytes that are no JSON,
\* JSON that is no object, or an object with or without a "prompts" entry.
Doc(exists, parses, is_object, has_prompts, prompts) ==
  [exists |-> exists, parses |-> parses, is_object |-> is_object,
   has_prompts |-> has_prompts, prompts |-> prompts]

DocMissing == Doc(FALSE, FALSE, FALSE, FALSE, JNull)
DocGarbage == Doc(TRUE, FALSE, FALSE, FALSE, JNull)
DocNotObject == Doc(TRUE, TRUE, FALSE, FALSE, JNull)
DocNoPrompts == Doc(TRUE, TRUE, TRUE, FALSE, JNull)
DocNullPrompts == Doc(TRUE, TRUE, TRUE, TRUE, JNull)
DocEmptyPrompts == Doc(TRUE, TRUE, TRUE, TRUE, JList(0))
DocOnePrompt == Doc(TRUE, TRUE, TRUE, TRUE, JList(1))
DocNumberPrompts == Doc(TRUE, TRUE, TRUE, TRUE, JNum(7))

Documents == {DocMissing, DocGarbage, DocNotObject, DocNoPrompts, DocNullPrompts,
              DocEmptyPrompts, DocOnePrompt, DocNumberPrompts}

\* What the bucket may hold when the download ends with dl; a download that
\* raises never reads the object, so one stands for all.
Stored(dl) == IF dl = "ok" THEN Documents ELSE {DocMissing}

\* What one download met: how the round trip ended and the object stored.
Fetch(dl, doc) == [dl |-> dl, doc |-> doc]

NoFetch == Fetch("none", DocMissing)

\* data.get("prompts"): the entry, or None when the key is absent.
GetPrompts(doc) == IF doc.has_prompts THEN doc.prompts ELSE JNull

\* The try block of _load_daydef: "ok" when the document is returned, "api"
\* when an APIError leaves it, "other" for every other Exception (download
\* of a missing object, decoding, .get on a non-object, the ValueError),
\* "interrupt" when what leaves it is no Exception.
LoadDaydef(dl, doc) ==
  IF dl # "ok" THEN dl
  ELSE IF ~doc.exists THEN "other"
  ELSE IF ~doc.parses THEN "other"
  ELSE IF ~doc.is_object THEN "other"
  ELSE IF ~Truthy(GetPrompts(doc)) THEN "other"
  ELSE "ok"

\* The exception a handler of _load_daydef binds, if any: a download that
\* raises says m, every exception raised on what was downloaded (missing
\* object, decoding, AttributeError, the ValueError) has a text. An
\* interruption reaches no handler.
LoadDaydefRaises(dl, doc, m) ==
  IF LoadDaydef(dl, doc) \in {"ok", "interrupt"} THEN NoExc
  ELSE Raised(LoadDaydef(dl, doc), IF dl = "ok" THEN "text" ELSE m)

\* ---------------------------------------------------------------- notifier
\* The detail= argument of a handler: exc.message in the except APIError
\* handlers, str(exc) in the catch-all.
Detail(e) == e.text

\* Mutation: the payload built with the smoke test's fixed user id.
PayloadFixedUser(u, detail) == [user_id |-> 1, detail |-> detail]

\* _broadcast_ready builds the payload; `if detail:` leaves the key out when
\* detail is None or '' (detail = NoText stands for a payload without it).
Payload(u, detail) == [user_id |-> u, detail |-> detail]

\* Mutation: the event sent on a misspelt channel.
DeliveredOnWrongChannel(evs, r, event, payload, o) ==
  IF Applied(o)
    THEN evs \cup {[channel |-> "flame-status", event |-> event, payload |-> payload,
                    run |-> r, at |-> Len(calls[r]) + 1]}
    ELSE evs

\* The broadcast RPC delivers the event when the server handled the call,
\* whether or not its answer reached the client. An event is recorded with
\* the run that published it and the position of the publish among the
\* run's remote calls.
Delivered(evs, r, event, payload, o) ==
  IF Applied(o)
    THEN evs \cup {[channel |-> BROADCAST_CHANNEL, event |-> event, payload |-> payload,
                    run |-> r, at |-> Len(calls[r]) + 1]}
    ELSE evs

\* _broadcast catches APIError alone: any other exception leaves it.
BroadcastRaises(o) == o \notin {"ok", "api"}

\* -------------------------------------------------------------------- runs
\* A run's outcome: DONE or FAILED; the step that failed; whether the
\* exception that leaves the function is the step's own or the notifier's;
\* and the value returned (0 stands for None).
NoResult == [status |-> "none", reason |-> "none", surfaced |-> "none", ret |-> 0]

Outcome(status, reason, surfaced, ret) ==
  [status |-> status, reason |-> reason, surfaced |-> surfaced, ret |-> ret]

Call(op, res) == [op |-> op, res |-> res]

Active(r) == pc[r] \notin {"idle", "done", "failed"}

\* The run r ends with its outcome.
\* When the platform runs one invocation at a time (serial), the store each
\* run found at its start and left at its end is kept for comparison.
Ends(r, outcome) ==
  /\ result' = [result EXCEPT ![r] = outcome]
  /\ storeAtEnd' = IF serial
                     THEN [storeAtEnd EXCEPT ![r] =
                             [quests |-> quests', participants |-> participants',
                              progress |-> progress']]
                     ELSE storeAtEnd

Failed(reason) == Outcome("FAILED", reason, "step", 0)

Continues == UNCHANGED <<result, storeAtEnd>>

Logs(r, op, res) == calls' = [calls EXCEPT ![r] = Append(@, Call(op, res))]

\* Mutation: the credentials are not read at the start of the run.
BeginsUnchecked(r, u) ==
  /\ pc[r] = "idle"
  /\ \A s \in Runs : s < r => pc[s] # "idle"
  /\ serial => \A s \in Runs : ~Active(s)
  /\ storeAtStart' = IF serial THEN [storeAtStart EXCEPT ![r] = Store] ELSE storeAtStart
  /\ user' = [user EXCEPT ![r] = u]
  /\ UNCHANGED <<quests, participants, progress, events, quest_id, exc, calls, serial, configured, traced, fetched>>
  /\ pc' = [pc EXCEPT ![r] = "quest"] /\ Continues

\* An invocation starts; runs are numbered in the order they start.
\* os.environ[...] raises KeyError before any remote call when a credential
\* is absent; otherwise the run goes on to its first step.
Begins(r, u) ==
  /\ pc[r] = "idle"
  /\ \A s \in Runs : s < r => pc[s] # "idle"
  /\ serial => \A s \in Runs : ~Active(s)
  /\ storeAtStart' = IF serial THEN [storeAtStart EXCEPT ![r] = Store] ELSE storeAtStart
  /\ user' = [user EXCEPT ![r] = u]
  /\ UNCHANGED <<quests, participants, progress, events, quest_id, exc, calls, serial, configured, traced, fetched>>
  /\ IF configured
       THEN pc' = [pc EXCEPT ![r] = "quest"] /\ Continues
       ELSE pc' = [pc EXCEPT ![r] = "failed"] /\ Ends(r, Failed("config"))

\* ------------------------------------------------------ ensure_flame_state
\* The statements of ensure_flame_state in order: the step that follows a
\* step that returned.
EfsNextStep(at) ==
  CASE at = "quest" -> "participant"
    [] at = "participant" -> "progress"
    [] at = "progress" -> "done"

EfsStart(r, u) ==
  /\ kind' = [kind EXCEPT ![r] = "efs"]
  /\ UNCHANGED retry_of
  /\ Begins(r, u)

\* Mutation: a quest write that fails is tried once more.
EfsEnsureQuestRetries(r, o) ==
  /\ kind[r] = "efs" /\ pc[r] = "quest"
  /\ Logs(r, "quest", o)
  /\ UNCHANGED <<participants, progress, events, kind, user, exc, serial, storeAtStart, configured, retry_of, traced, fetched>>
  /\ LET up == UpsertQuest(quests[PUBLIC_SCHEMA]) IN
     /\ quests' = IF Applied(o) THEN [quests EXCEPT ![PUBLIC_SCHEMA] = up.table] ELSE quests
     /\ IF o = "ok"
          THEN /\ \E row \in up.data : quest_id' = [quest_id EXCEPT ![r] = row.id]
               /\ pc' = [pc EXCEPT ![r] = EfsNextStep("quest")]
               /\ Continues
          ELSE /\ UNCHANGED quest_id
               /\ IF calls[r] = <<>>
                    THEN UNCHANGED pc /\ Continues
                    ELSE pc' = [pc EXCEPT ![r] = "failed"] /\ Ends(r, Failed("registry"))

\* quest_id = _ensure_quest(sb): the upsert goes to public.quests; the
\* except APIError logs and raises again, every other exception passes.
EfsEnsureQuest(r, o) ==
  /\ kind[r] = "efs" /\ pc[r] = "quest"
  /\ Logs(r, "quest", o)
  /\ UNCHANGED <<participants, progress, events, kind, user, exc, serial, storeAtStart, configured, retry_of, traced, fetched>>
  /\ LET up == UpsertQuest(quests[PUBLIC_SCHEMA]) IN
     /\ quests' = IF Applied(o) THEN [quests EXCEPT ![PUBLIC_SCHEMA] = up.table] ELSE quests
     /\ IF o = "ok"
          THEN /\ \E row \in up.data : quest_id' = [quest_id EXCEPT ![r] = row.id]
               /\ pc' = [pc EXCEPT ![r] = EfsNextStep("quest")]
               /\ Continues
          ELSE /\ UNCHANGED quest_id
               /\ pc' = [pc EXCEPT ![r] = "failed"]
               /\ Ends(r, Failed("registry"))

\* _ensure_participant(sb, quest_id, user_id): public.quest_participants.
EfsEnsureParticipant(r, o) ==
  /\ kind[r] = "efs" /\ pc[r] = "participant"
  /\ Logs(r, "participant", o)
  /\ UNCHANGED <<quests, progress, events, kind, user, quest_id, exc, serial, storeAtStart, configured, retry_of, traced, fetched>>
  /\ participants' =
       IF Applied(o)
         THEN [participants EXCEPT ![PUBLIC_SCHEMA] =
                 UpsertParticipant(@, quest_id[r], user[r]).table]
         ELSE participants
  /\ IF o = "ok"
       THEN /\ pc' = [pc EXCEPT ![r] = EfsNextStep("participant")]
            /\ Continues
       ELSE /\ pc' = [pc EXCEPT ![r] = "failed"]
            /\ Ends(r, Failed("state_write"))

\* _ensure_progress(sb, quest_id, user_id): public.flame_progress;
\* return {"quest_id": quest_id}
EfsEnsureProgress(r, o) ==
  /\ kind[r] = "efs" /\ pc[r] = "progress"
  /\ Logs(r, "progress", o)
  /\ UNCHANGED <<quests, participants, events, kind, user, quest_id, exc, serial, storeAtStart, configured, retry_of, traced, fetched>>
  /\ progress' =
       IF Applied(o)
         THEN [progress EXCEPT ![PUBLIC_SCHEMA] =
                 UpsertProgress(@, quest_id[r], user[r]).table]
         ELSE progress
  /\ IF o = "ok"
       THEN /\ pc' = [pc EXCEPT ![r] = EfsNextStep("progress")]
            /\ Ends(r, Outcome("DONE", "none", "none", quest_id[r]))
       ELSE /\ pc' = [pc EXCEPT ![r] = "failed"]
            /\ Ends(r, Failed("state_write"))

\* ----------------------------------------------------- update_flame_status
\* Mutation: step 3 moved before step 2.
UfsNextStepContentFirst(at) ==
  CASE at = "quest" -> "daydef"
    [] at = "daydef" -> "rpc"
    [] at = "rpc" -> "ready"
    [] at = "ready" -> "done"

\* Mutation: step 3 left out.
UfsNextStepSkipsContent(at) ==
  CASE at = "quest" -> "rpc"
    [] at = "rpc" -> "ready"
    [] at = "daydef" -> "ready"
    [] at = "ready" -> "done"

\* The numbered steps of update_flame_status in order: the step that follows
\* a step that returned.
UfsNextStep(at) ==
  CASE at = "quest" -> "rpc"
    [] at = "rpc" -> "daydef"
    [] at = "daydef" -> "ready"
    [] at = "ready" -> "done"

UfsStart(r, u) ==
  /\ kind' = [kind EXCEPT ![r] = "ufs"]
  /\ UNCHANGED retry_of
  /\ Begins(r, u)

\* 1. quest_id = _ensure_quest(ritual): the upsert goes to ritual.quests;
\* outside every try, so a failure leaves update_flame_status at once.
UfsEnsureQuest(r, o) ==
  /\ kind[r] = "ufs" /\ pc[r] = "quest"
  /\ Logs(r, "quest", o)
  /\ UNCHANGED <<participants, progress, events, kind, user, exc, serial, storeAtStart, configured, retry_of, traced, fetched>>
  /\ LET up == UpsertQuest(quests[RITUAL_SCHEMA]) IN
     /\ quests' = IF Applied(o) THEN [quests EXCEPT ![RITUAL_SCHEMA] = up.table] ELSE quests
     /\ IF o = "ok"
          THEN /\ \E row \in up.data : quest_id' = [quest_id EXCEPT ![r] = row.id]
               /\ pc' = [pc EXCEPT ![r] = UfsNextStep("quest")]
               /\ Continues
          ELSE /\ UNCHANGED quest_id
               /\ pc' = [pc EXCEPT ![r] = "failed"]
               /\ Ends(r, Failed("registry"))

\* 2. ritual.rpc("ensure_first_flame", ...) inside try / except APIError:
\* an APIError (saying m) enters the handler, any other exception leaves.
UfsEnsureFirstFlame(r, o, m) ==
  /\ kind[r] = "ufs" /\ pc[r] = "rpc"
  /\ Logs(r, "rpc", o)
  /\ UNCHANGED <<quests, events, kind, user, quest_id, serial, storeAtStart, configured, retry_of, traced, fetched>>
  /\ LET seeded == EnsureFirstFlame(participants[RITUAL_SCHEMA], progress[RITUAL_SCHEMA],
                                    quest_id[r], user[r]) IN
     /\ participants' = IF Applied(o)
                          THEN [participants EXCEPT ![RITUAL_SCHEMA] = seeded.participants]
                          ELSE participants
     /\ progress' = IF Applied(o)
                      THEN [progress EXCEPT ![RITUAL_SCHEMA] = seeded.progress]
                      ELSE progress
  /\ CASE o = "ok" ->
            /\ pc' = [pc EXCEPT ![r] = UfsNextStep("rpc")]
            /\ UNCHANGED exc /\ Continues
       [] o = "api" ->
            /\ pc' = [pc EXCEPT ![r] = "rpc_except"]
            /\ exc' = [exc EXCEPT ![r] = Raised("api", m)]
            /\ Continues
       [] OTHER ->
            /\ pc' = [pc EXCEPT ![r] = "failed"]
            /\ UNCHANGED exc /\ Ends(r, Failed("state_write"))

\* Mutation: the handler compensates by deleting the user's progress rows.
HandlerRollsBack(r, reason, o) ==
  /\ Logs(r, "publish_error", o)
  /\ events' = Delivered(events, r, "error", Payload(user[r], Detail(exc[r])), o)
  /\ exc' = [exc EXCEPT ![r] = NoExc]
  /\ progress' = [s \in Schemas |->
                    [x \in {y \in BagToSet(progress[s]) : y.user_id # user[r]} |-> progress[s][x]]]
  /\ UNCHANGED <<quests, participants, kind, user, quest_id, serial, storeAtStart, configured, retry_of, traced, fetched>>
  /\ pc' = [pc EXCEPT ![r] = "failed"]
  /\ Ends(r, Outcome("FAILED", reason, IF BroadcastRaises(o) THEN "notifier" ELSE "step", 0))

\* An except handler of update_flame_status or _load_daydef: publish the
\* 'error' event with the bound exception's detail, then raise the failure
\* of the step. An exception that leaves _broadcast takes the place of the
\* step's failure. Leaving the handler unbinds exc.
Handler(r, reason, o) ==
  /\ Logs(r, "publish_error", o)
  /\ events' = Delivered(events, r, "error", Payload(user[r], Detail(exc[r])), o)
  /\ exc' = [exc EXCEPT ![r] = NoExc]
  /\ UNCHANGED <<quests, participants, progress, kind, user, quest_id, serial, storeAtStart, configured, retry_of, traced, fetched>>
  /\ pc' = [pc EXCEPT ![r] = "failed"]
  /\ Ends(r, Outcome("FAILED", reason, IF BroadcastRaises(o) THEN "notifier" ELSE "step", 0))

\* except APIError of step 2: broadcast, raise RuntimeError(exc.message).
UfsRpcExcept(r, o) ==
  /\ kind[r] = "ufs" /\ pc[r] = "rpc_except"
  /\ Handler(r, "state_write", o)

\* 3. _load_daydef(sb, user_id=user_id, day=1): the try block. A download
\* that raises says m; the exceptions raised on what was downloaded say
\* what is wrong with it. An APIError enters the first handler, any other
\* Exception the second; an interruption passes both and leaves
\* update_flame_status with no publish.
UfsLoadDaydef(r, dl, doc, m) ==
  /\ kind[r] = "ufs" /\ pc[r] = "daydef"
  /\ Logs(r, "content", LoadDaydef(dl, doc))
  /\ fetched' = IF traced THEN [fetched EXCEPT ![r] = Fetch(dl, doc)] ELSE fetched
  /\ UNCHANGED <<quests, participants, progress, events, kind, user, quest_id, serial, storeAtStart, configured, retry_of, traced>>
  /\ exc' = [exc EXCEPT ![r] = LoadDaydefRaises(dl, doc, m)]
  /\ CASE LoadDaydef(dl, doc) = "ok" ->
            pc' = [pc EXCEPT ![r] = UfsNextStep("daydef")] /\ Continues
       [] LoadDaydef(dl, doc) = "api" ->
            pc' = [pc EXCEPT ![r] = "daydef_except_api"] /\ Continues
       [] LoadDaydef(dl, doc) = "other" ->
            pc' = [pc EXCEPT ![r] = "daydef_except"] /\ Continues
       [] OTHER ->
            pc' = [pc EXCEPT ![r] = "failed"] /\ Ends(r, Failed("content"))

\* Mutation: the exception re-raised by the except APIError handler is
\* caught once more by the except Exception handler below it.
UfsDaydefExceptApiCaughtAgain(r, o) ==
  /\ kind[r] = "ufs" /\ pc[r] = "daydef_except_api"
  /\ Logs(r, "publish_error", o)
  /\ events' = Delivered(events, r, "error", Payload(user[r], Detail(exc[r])), o)
  /\ UNCHANGED <<quests, participants, progress, kind, user, quest_id, exc, serial, storeAtStart, configured, retry_of, traced, fetched>>
  /\ pc' = [pc EXCEPT ![r] = "daydef_except"]
  /\ Continues

\* except APIError of _load_daydef: broadcast, re-raise.
UfsDaydefExceptApi(r, o) ==
  /\ kind[r] = "ufs" /\ pc[r] = "daydef_except_api"
  /\ Handler(r, "content", o)

\* except Exception of _load_daydef: broadcast, re-raise.
UfsDaydefExcept(r, o) ==
  /\ kind[r] = "ufs" /\ pc[r] = "daydef_except"
  /\ Handler(r, "content", o)

\* 4. _broadcast_ready(sb, user_id, event="ready"); the function returns None.
UfsBroadcastReady(r, o) ==
  /\ kind[r] = "ufs" /\ pc[r] = "ready"
  /\ Logs(r, "publish_ready", o)
  /\ events' = Delivered(events, r, "ready", Payload(user[r], NoText), o)
  /\ UNCHANGED <<quests, participants, progress, kind, user, quest_id, exc, serial, storeAtStart, configured, retry_of, traced, fetched>>
  /\ IF BroadcastRaises(o)
       THEN pc' = [pc EXCEPT ![r] = "failed"]
            /\ Ends(r, Outcome("FAILED", "notify", "notifier", 0))
       ELSE pc' = [pc EXCEPT ![r] = UfsNextStep("ready")]
            /\ Ends(r, Outcome("DONE", "none", "none", 0))

\* -------------------------------------------------------------- platform
\* @app.function(retries=2): how many times the platform starts
\* update_flame_status again after a run raised.
RETRIES == 2

RECURSIVE Attempt(_)
Attempt(r) == IF retry_of[r] = 0 THEN 0 ELSE 1 + Attempt(retry_of[r])

\* The platform starts run n with the input of run r, which raised and has
\* retries left.
UfsRetry(r, n) ==
  /\ kind[r] = "ufs" /\ pc[r] = "failed"
  /\ \A s \in Runs : retry_of[s] # r
  /\ Attempt(r) < RETRIES
  /\ kind' = [kind EXCEPT ![n] = "ufs"]
  /\ retry_of' = [retry_of EXCEPT ![n] = r]
  /\ Begins(n, user[r])

\* ----------------------------------------------------------- specification
OtherQuest == [slug |-> OTHER_SLUG, title |-> "Other", type |-> "ritual",
               realm |-> OTHER_SLUG, is_pinned |-> FALSE, id |-> 1]

StaleQuest == [slug |-> FIRST_FLAME_SLUG, title |-> "Old title", type |-> "ritual",
               realm |-> FIRST_FLAME_SLUG, is_pinned |-> FALSE, id |-> 2]

\* Databases a run can find: empty; in each schema the ritual quest beside an
\* unrelated one, with the participant row an interrupted run left; the same
\* with the user's progress already moved forward by another process.
InterruptedStore ==
  Everywhere([quests |-> SetToBag({OtherQuest, StaleQuest}),
              participants |-> SetToBag({ParticipantPayload(2, 1)}),
              progress |-> EmptyBag])

AdvancedStore ==
  Everywhere([quests |-> SetToBag({OtherQuest, StaleQuest}),
              participants |-> SetToBag({ParticipantPayload(2, 1)}),
              progress |-> SetToBag({[ProgressPayload(2, 1) EXCEPT
                                        !.current_day_target = 3]})])

StartStores == {EmptyStore, InterruptedStore, AdvancedStore}

\* Before any invocation, the store being one of `stores`.
StartIn(stores) ==
  /\ \E s \in stores :
       /\ quests = s.quests
       /\ participants = s.participants
       /\ progress = s.progress
  /\ events = {}
  /\ configured \in BOOLEAN
  /\ pc = [r \in Runs |-> "idle"]
  /\ kind = [r \in Runs |-> "none"]
  /\ user = [r \in Runs |-> 0]
  /\ quest_id = [r \in Runs |-> 0]
  /\ exc = [r \in Runs |-> NoExc]
  /\ calls = [r \in Runs |-> <<>>]
  /\ result = [r \in Runs |-> NoResult]
  /\ storeAtStart = [r \in Runs |-> EmptyStore]
  /\ storeAtEnd = [r \in Runs |-> EmptyStore]
  /\ fetched = [r \in Runs |-> NoFetch]
  /\ retry_of = [r \in Runs |-> 0]

Start == StartIn(StartStores)

Next ==
  \/ \E r \in Runs, u \in Users : EfsStart(r, u)
  \/ \E r \in Runs, o \in Outcomes : EfsEnsureQuest(r, o)
  \/ \E r \in Runs, o \in Outcomes : EfsEnsureParticipant(r, o)
  \/ \E r \in Runs, o \in Outcomes : EfsEnsureProgress(r, o)
  \/ \E r \in Runs, u \in Users : UfsStart(r, u)
  \/ \E r \in Runs, o \in Outcomes : UfsEnsureQuest(r, o)
  \/ \E r \in Runs, o \in Outcomes, m \in Texts : UfsEnsureFirstFlame(r, o, m)
  \/ \E r \in Runs, o \in Outcomes : UfsRpcExcept(r, o)
  \/ \E r \in Runs, dl \in ReadOutcomes, m \in Texts :
       \E doc \in Stored(dl) : UfsLoadDaydef(r, dl, doc, m)
  \/ \E r \in Runs, o \in Outcomes : UfsDaydefExceptApi(r, o)
  \/ \E r \in Runs, o \in Outcomes : UfsDaydefExcept(r, o)
  \/ \E r \in Runs, o \in Outcomes : UfsBroadcastReady(r, o)

\* Runs interleave their remote calls freely, from an empty store or from one
\* other processes have written.
Init == StartIn({EmptyStore, AdvancedStore}) /\ serial = FALSE /\ traced = FALSE

Spec == Init /\ [][Next]_vars

\* One run at a time: a run starts only when no other run is under way.
InitSeq == Start /\ serial = TRUE /\ traced = FALSE

SpecSeq == InitSeq /\ [][Next]_vars

\* The steps of run r once it has started.
Step(r) ==
  \/ \E o \in Outcomes : EfsEnsureQuest(r, o)
  \/ \E o \in Outcomes : EfsEnsureParticipant(r, o)
  \/ \E o \in Outcomes : EfsEnsureProgress(r, o)
  \/ \E o \in Outcomes : UfsEnsureQuest(r, o)
  \/ \E o \in Outcomes, m \in Texts : UfsEnsureFirstFlame(r, o, m)
  \/ \E o \in Outcomes : UfsRpcExcept(r, o)
  \/ \E dl \in ReadOutcomes, m \in Texts :
       \E doc \in Stored(dl) : UfsLoadDaydef(r, dl, doc, m)
  \/ \E o \in Outcomes : UfsDaydefExceptApi(r, o)
  \/ \E o \in Outcomes : UfsDaydefExcept(r, o)
  \/ \E o \in Outcomes : UfsBroadcastReady(r, o)

\* One run at a time from an empty store (no step waits on what the store
\* holds); a run that has started goes on executing, and every remote call
\* it issues comes back (each carries a timeout).
InitLive == StartIn({EmptyStore}) /\ serial = TRUE /\ traced = FALSE

SpecLive == InitLive /\ [][Next]_vars /\ \A r \in Runs : WF_vars(Step(r))

\* One run at a time, update_flame_status under its retry policy.
NextRetry ==
  \/ Next
  \/ \E r \in Runs, n \in Runs : UfsRetry(r, n)

SpecRetry == InitSeq /\ [][NextRetry]_vars

\* One run at a time, every download traced.
InitContent == Start /\ serial = TRUE /\ traced = TRUE

SpecContent == InitContent /\ [][Next]_vars

\* ------------------------------------------------------------- properties
Rows(table) == BagToSet(table)

\* The number of rows of a table that satisfy Where.
Count(table, Where(_)) ==
  BagCardinality([x \in {y \in Rows(table) : Where(y)} |-> table[x]])

WithSlug(table, slug) == Count(table, LAMBDA x : x.slug = slug)

Keyed(table, q, u) == Count(table, LAMBDA x : x.quest_id = q /\ x.user_id = u)

\* The rows of a table that belong to user v.
RowsOf(table, v) == [x \in {y \in Rows(table) : y.user_id = v} |-> table[x]]

Ended(r) == pc[r] \in {"done", "failed"}

Done(r) == result[r].status = "DONE"

Issued(r, op) == \E i \in DOMAIN calls[r] : calls[r][i].op = op

Returned(r, op) == \E i \in DOMAIN calls[r] : calls[r][i] = Call(op, "ok")

\* Run r issued op and the server carried it out.
Took(r, op) == \E i \in DOMAIN calls[r] : calls[r][i].op = op /\ Applied(calls[r][i].res)

\* The tables run r's worker addresses, in a database.
Own(store, r) == In(store, SchemaOf(kind[r]))

\* C1. Idempotence of a seeding run: when a run of either worker for user u
\* succeeds from the store that a successful run of the same worker for u
\* left, it leaves exactly that store again: the same Quest, participant and
\* progress rows with the same fields, no row added.
C1_Idempotent ==
  \A r1 \in Runs, r2 \in Runs :
    ( /\ r1 # r2 /\ Done(r1) /\ Done(r2)
      /\ user[r1] = user[r2] /\ kind[r1] = kind[r2]
      /\ storeAtStart[r2] = storeAtEnd[r1] )
    => storeAtEnd[r2] = storeAtEnd[r1]

\* A second successful run for the same user that started from the store the
\* first one left, the first one having written something.
C1_Witness ==
  \E r1 \in Runs, r2 \in Runs :
    /\ r1 # r2 /\ Done(r1) /\ Done(r2)
    /\ user[r1] = user[r2] /\ kind[r1] = kind[r2]
    /\ storeAtStart[r2] = storeAtEnd[r1]
    /\ storeAtStart[r1] # storeAtEnd[r1]

\* C2. Convergence under concurrency: no interleaving of runs leaves, in the
\* tables a worker addresses, two Quest rows with one slug or two rows of a
\* table with one (quest_id, user_id); and once every started run has
\* finished, a user with a successful run has there exactly one Quest row
\* with slug first-flame-ritual, one participant row and one progress row
\* keyed (quest_id, u).
C2_Convergence ==
  /\ \A s \in Schemas :
       /\ \A x \in Rows(quests[s]) : WithSlug(quests[s], x.slug) = 1
       /\ \A x \in Rows(participants[s]) :
            Keyed(participants[s], x.quest_id, x.user_id) = 1
       /\ \A x \in Rows(progress[s]) : Keyed(progress[s], x.quest_id, x.user_id) = 1
  /\ (\A r \in Runs : ~Active(r)) =>
       \A r \in Runs :
         Done(r) => /\ WithSlug(Own(Store, r).quests, FIRST_FLAME_SLUG) = 1
                    /\ Keyed(Own(Store, r).participants, quest_id[r], user[r]) = 1
                    /\ Keyed(Own(Store, r).progress, quest_id[r], user[r]) = 1

\* Every run has finished and two runs of one worker, for one user, succeeded.
C2_Witness ==
  /\ \A r \in Runs : Ended(r)
  /\ \E r1 \in Runs, r2 \in Runs :
       /\ r1 # r2 /\ Done(r1) /\ Done(r2)
       /\ user[r1] = user[r2] /\ kind[r1] = kind[r2]

\* C3. No regression of progress: a step never turns a progress row that
\* another process had moved past day 1, or completed, back into the
\* defaults current_day_target = 1, is_quest_complete = false.
MovedOn(x) == x.current_day_target > 1 \/ x.is_quest_complete

C3_NoRegression ==
  [][ \A s \in Schemas : \A x \in Rows(progress[s]) :
        MovedOn(x) =>
          ~\E y \in Rows(progress'[s]) :
             /\ y.quest_id = x.quest_id /\ y.user_id = x.user_id
             /\ ~MovedOn(y) ]_vars

\* C4. Step ordering within a run: a participant or progress write (an
\* upsert or the ensure_first_flame RPC) is issued only after the run's quest
\* upsert returned a quest id, and the day-1 content is fetched only after
\* the run's participant-state write returned.
Before(r, i, op) == \E j \in 1..(i - 1) : calls[r][j] = Call(op, "ok")

C4_StepOrdering ==
  \A r \in Runs : \A i \in DOMAIN calls[r] :
    /\ calls[r][i].op \in {"participant", "progress", "rpc"} =>
         Before(r, i, "quest") /\ quest_id[r] # 0
    /\ calls[r][i].op = "progress" => Before(r, i, "participant")
    /\ calls[r][i].op = "content" => Before(r, i, "rpc")

\* One run has fetched the content and another has written its progress row.
C4_Witness ==
  \E r1 \in Runs, r2 \in Runs :
    Issued(r1, "content") /\ Issued(r2, "progress")

\* C5. The notifier is best-effort: whatever way a publish fails, a run of
\* update_flame_status that validated the content ends DONE, and a run that
\* failed in steps 1-3 surfaces the failure of that step, never the
\* notifier's.
C5_NotifierBestEffort ==
  \A r \in Runs :
    (kind[r] = "ufs" /\ Ended(r)) =>
      /\ Returned(r, "content") => Done(r)
      /\ result[r].status = "FAILED" => result[r].surfaced = "step"

\* C6. Error notification on every failure: a run of update_flame_status
\* that ended FAILED for the reason registry, state_write or content has
\* attempted an 'error' publish.
C6_ErrorNotified ==
  \A r \in Runs :
    ( /\ kind[r] = "ufs" /\ result[r].status = "FAILED"
      /\ result[r].reason \in {"registry", "state_write", "content"} )
    => Issued(r, "publish_error")

\* C7. Failure isolation of content validation: a run of update_flame_status
\* whose content step failed ends FAILED(content) and leaves the store as
\* its steps 1-2 made it; run again from the store a successful run for the
\* same user left, it leaves that store unchanged; and a later run for the
\* user from the store it left, every call of which returns, ends DONE
\* without changing the rows.
ContentFailed(r) ==
  \E i \in DOMAIN calls[r] : calls[r][i].op = "content" /\ calls[r][i].res # "ok"

\* The database after steps 1-2 of update_flame_status for u, started from s.
Seeded(s, u) ==
  LET up == UpsertQuest(s.quests[RITUAL_SCHEMA])
      q == (CHOOSE x \in up.data : TRUE).id
      rows == EnsureFirstFlame(s.participants[RITUAL_SCHEMA], s.progress[RITUAL_SCHEMA], q, u)
  IN With(s, RITUAL_SCHEMA,
          [quests |-> up.table, participants |-> rows.participants,
           progress |-> rows.progress])

AllReturned(r) == \A i \in DOMAIN calls[r] : calls[r][i].res = "ok"

C7_ContentFailureIsolated ==
  \A r \in Runs :
    (kind[r] = "ufs" /\ Ended(r) /\ ContentFailed(r)) =>
      /\ result[r].status = "FAILED" /\ result[r].reason = "content"
      /\ storeAtEnd[r] = Seeded(storeAtStart[r], user[r])
      /\ \A p \in Runs \ {r} :
           ( /\ kind[p] = "ufs" /\ Done(p) /\ user[p] = user[r]
             /\ storeAtStart[r] = storeAtEnd[p] )
           => storeAtEnd[r] = storeAtEnd[p]
      /\ \A n \in Runs \ {r} :
           ( /\ kind[n] = "ufs" /\ Ended(n) /\ user[n] = user[r]
             /\ storeAtStart[n] = storeAtEnd[r]
             /\ Len(calls[n]) = 4 /\ AllReturned(n) )
           => Done(n) /\ storeAtEnd[n] = storeAtEnd[r]

\* A user's run succeeded and wrote rows; the next run for the user, from
\* the store it left, failed at the content step.
C7_Witness ==
  \E r \in Runs, p \in Runs :
    /\ r # p /\ kind[r] = "ufs" /\ kind[p] = "ufs" /\ user[p] = user[r]
    /\ Done(p) /\ storeAtStart[p] # storeAtEnd[p]
    /\ Ended(r) /\ ContentFailed(r) /\ storeAtStart[r] = storeAtEnd[p]

\* C8. Quest identity: a quests table never holds more than one row with a
\* slug, and the quest id a run holds after its quest upsert is the id of the
\* one row with slug first-flame-ritual in the table its worker addresses, so
\* all runs of a worker write under the same id.
C8_QuestIdentity ==
  /\ \A s \in Schemas : \A x \in Rows(quests[s]) : WithSlug(quests[s], x.slug) = 1
  /\ \A r \in Runs :
       quest_id[r] # 0 =>
         \E x \in Rows(Own(Store, r).quests) :
           x.slug = FIRST_FLAME_SLUG /\ x.id = quest_id[r]
  /\ \A r1 \in Runs, r2 \in Runs :
       (quest_id[r1] # 0 /\ quest_id[r2] # 0 /\ kind[r1] = kind[r2])
       => quest_id[r1] = quest_id[r2]

\* Two runs of one worker under way at once, both holding a quest id, their
\* quests table also holding another quest.
C8_Witness ==
  \E r1 \in Runs, r2 \in Runs :
    /\ r1 # r2 /\ kind[r1] = kind[r2] /\ Active(r1) /\ Active(r2)
    /\ quest_id[r1] # 0 /\ quest_id[r2] # 0
    /\ \E x \in Rows(Own(Store, r1).quests) : x.slug = OTHER_SLUG

\* C9. Isolation across users: a step of a run for u leaves every
\* participant and progress row of any other user as it was, and an event it
\* publishes carries user_id u.
C9_Isolation ==
  [][ \A r \in Runs :
        pc'[r] # pc[r] =>
          /\ \A v \in Users \ {user'[r]} : \A s \in Schemas :
               /\ RowsOf(participants'[s], v) = RowsOf(participants[s], v)
               /\ RowsOf(progress'[s], v) = RowsOf(progress[s], v)
          /\ \A e \in events' \ events : e.payload.user_id = user'[r] ]_vars

\* Runs for two different users have both written rows and published.
C9_Witness ==
  \E r1 \in Runs, r2 \in Runs :
    /\ user[r1] # user[r2] /\ Done(r1) /\ Done(r2)
    /\ \E e1 \in events, e2 \in events : e1.run = r1 /\ e2.run = r2

\* C10. Fresh-user scenario: from tables with no rows, a run for u whose
\* remote calls all return (the day-1 content being valid) ends DONE holding
\* a quest id; the store then has one Quest row with slug first-flame-ritual
\* and that id, a participant row and a progress row for (quest_id, u) with
\* current_day_target = 1 and is_quest_complete = false; a run of
\* update_flame_status has a 'ready' event with user_id u on the
\* flame_status channel, and a run of ensure_flame_state returns the id.
FreshAndSmooth(r) ==
  /\ Ended(r)
  /\ Own(storeAtStart[r], r) = EmptyTables
  /\ Len(calls[r]) = (IF kind[r] = "ufs" THEN 4 ELSE 3) /\ AllReturned(r)

C10_FreshUser ==
  \A r \in Runs :
    FreshAndSmooth(r) =>
      /\ Done(r) /\ quest_id[r] # 0
      /\ Own(storeAtEnd[r], r).quests =
           SetToBag({[id |-> quest_id[r], slug |-> "first-flame-ritual",
                      title |-> "First Flame Ritual", type |-> "ritual",
                      realm |-> "first-flame-ritual", is_pinned |-> TRUE]})
      /\ Own(storeAtEnd[r], r).participants =
           SetToBag({[quest_id |-> quest_id[r], user_id |-> user[r], role |-> "participant"]})
      /\ Own(storeAtEnd[r], r).progress =
           SetToBag({[quest_id |-> quest_id[r], user_id |-> user[r],
                      current_day_target |-> 1, is_quest_complete |-> FALSE]})
      /\ kind[r] = "ufs" =>
           \E e \in events :
             /\ e.run = r /\ e.event = "ready" /\ e.channel = "flame_status"
             /\ e.payload.user_id = user[r]
      /\ kind[r] = "efs" => result[r].ret = quest_id[r]

\* A run of update_flame_status found its tables empty, every call returned
\* and it ended DONE.
C10_Witness == \E r \in Runs : kind[r] = "ufs" /\ FreshAndSmooth(r) /\ Done(r)

\* C11. Content validation result: the content step of a run succeeds exactly
\* when the download returned an object that parses as a JSON object holding
\* a non-empty prompts collection (so a missing object, an unparsable
\* document, a document without prompts and one with prompts = [] are each
\* rejected), and the step writes nothing: the store is still the one steps
\* 1-2 made.
NonEmptyCollection(v) == v.t = "list" /\ v.n > 0

WellFormed(f) ==
  /\ f.dl = "ok"
  /\ f.doc.exists /\ f.doc.parses /\ f.doc.is_object
  /\ f.doc.has_prompts /\ NonEmptyCollection(f.doc.prompts)

C11_ContentValidation ==
  \A r \in Runs :
    Issued(r, "content") =>
      /\ Returned(r, "content") <=> WellFormed(fetched[r])
      /\ (IF Ended(r) THEN storeAtEnd[r] ELSE Store) = Seeded(storeAtStart[r], user[r])

\* C12. Missing credentials are fatal before any step: when the store URL
\* or the service key is absent, every run that starts ends FAILED(config)
\* at once, having issued no remote call: no write to the store, no content
\* fetch and no publish.
C12_ConfigFatal ==
  /\ \A r \in Runs :
       result[r].reason = "config" =>
         /\ pc[r] = "failed" /\ result[r].status = "FAILED"
         /\ calls[r] = <<>>
         /\ \A e \in events : e.run # r
  /\ ~configured =>
       /\ \A r \in Runs : pc[r] # "idle" => result[r].reason = "config"
       /\ Store \in StartStores
       /\ events = {}

\* Without credentials, a run of each worker has been started.
C12_Witness ==
  /\ ~configured
  /\ \E r1 \in Runs, r2 \in Runs :
       /\ kind[r1] = "efs" /\ kind[r2] = "ufs"
       /\ result[r1].reason = "config" /\ result[r2].reason = "config"

\* C13. Short-circuit on failure: once a step of a run fails, no later
\* step's remote call is issued in that run (only the 'error' publish may
\* follow), and a run that ended FAILED has published no 'ready' event and
\* returns no quest id.
StepOps == {"quest", "participant", "progress", "rpc", "content"}

NoStepAfterFailure(r) ==
  \A i \in DOMAIN calls[r], j \in DOMAIN calls[r] :
    (i < j /\ calls[r][i].op \in StepOps /\ calls[r][i].res # "ok")
      => calls[r][j].op = "publish_error"

C13_ShortCircuit ==
  \A r \in Runs :
    /\ NoStepAfterFailure(r)
    /\ result[r].status = "FAILED" =>
         /\ ~\E e \in events : e.run = r /\ e.event = "ready"
         /\ result[r].ret = 0

\* C14. A notification failure does not cause state writes to be repeated:
\* no run that repeats the quest write was started by the platform as the
\* retry of a run whose steps 1-3 had all returned, that is, of a run that
\* raised only because its publish failed.
StepsReturned(r) ==
  Returned(r, "quest") /\ Returned(r, "rpc") /\ Returned(r, "content")

C14_NoRetryAfterNotifyFailure ==
  \A n \in Runs :
    (retry_of[n] # 0 /\ Issued(n, "quest")) => ~StepsReturned(retry_of[n])

\* C15. ParticipantState existence: for a user without rows when the first
\* run started, a participant or progress row exists in the tables a worker
\* addresses if and only if the store has carried out step 2 for some run of
\* that worker for the user (the participant and the progress write of
\* ensure_flame_state, the ensure_first_flame call of update_flame_status).
HasRows(tables, u) ==
  \E x \in Rows(tables.participants) \cup Rows(tables.progress) : x.user_id = u

CompletedStep2(r) ==
  \/ kind[r] = "efs" /\ Took(r, "participant") /\ Took(r, "progress")
  \/ kind[r] = "ufs" /\ Took(r, "rpc")

C15_StateExistence ==
  \A u \in Users, s \in Schemas :
    (pc[1] # "idle" /\ ~HasRows(In(storeAtStart[1], s), u)) =>
      ( HasRows(In(Store, s), u)
        <=> \E r \in Runs : SchemaOf(kind[r]) = s /\ user[r] = u /\ CompletedStep2(r) )

\* C16. Abort without compensation is repairable: a run for u that failed
\* leaves in the database exactly the writes the server had carried out for
\* it, and a later run of the same worker for u that succeeds from that
\* database ends in the rows a single successful run would have reached from
\* the database the failed run found.
SeededLocally(s, u) ==
  LET up == UpsertQuest(s.quests[PUBLIC_SCHEMA])
      q == (CHOOSE x \in up.data : TRUE).id
  IN With(s, PUBLIC_SCHEMA,
          [quests |-> up.table,
           participants |-> UpsertParticipant(s.participants[PUBLIC_SCHEMA], q, u).table,
           progress |-> UpsertProgress(s.progress[PUBLIC_SCHEMA], q, u).table])

SingleRun(k, s, u) == IF k = "efs" THEN SeededLocally(s, u) ELSE Seeded(s, u)

\* The database run r found, with the writes the server carried out for it.
Committed(r) ==
  LET s == storeAtStart[r]
      all == SingleRun(kind[r], s, user[r])
  IN [quests |-> IF Took(r, "quest") THEN all.quests ELSE s.quests,
      participants |-> IF Took(r, "participant") \/ Took(r, "rpc")
                         THEN all.participants ELSE s.participants,
      progress |-> IF Took(r, "progress") \/ Took(r, "rpc")
                     THEN all.progress ELSE s.progress]

C16_Repairable ==
  \A r1 \in Runs :
    (result[r1].status = "FAILED") =>
      /\ storeAtEnd[r1] = Committed(r1)
      /\ \A r2 \in Runs \ {r1} :
           ( /\ Done(r2) /\ user[r2] = user[r1] /\ kind[r2] = kind[r1]
             /\ storeAtStart[r2] = storeAtEnd[r1] )
           => storeAtEnd[r2] = SingleRun(kind[r2], storeAtStart[r1], user[r1])

\* A run of ensure_flame_state failed between its participant and its
\* progress write, and a later run of it for the user succeeded from that
\* database.
C16_Witness ==
  \E r1 \in Runs, r2 \in Runs :
    /\ r1 # r2 /\ kind[r1] = "efs" /\ kind[r2] = "efs"
    /\ result[r1].status = "FAILED" /\ Returned(r1, "participant")
    /\ Done(r2) /\ user[r2] = user[r1] /\ storeAtStart[r2] = storeAtEnd[r1]

\* C17. No internal retry, and termination: a run issues each of its steps'
\* remote operations at most once; a run that ended has the outcome DONE or
\* FAILED and takes no further step; and again and again no run is under
\* way, so that every run that started has reached its end.
AtMostOnce(r, op) ==
  \A i \in DOMAIN calls[r], j \in DOMAIN calls[r] :
    (calls[r][i].op = op /\ calls[r][j].op = op) => i = j

C17_NoRetryTerminates ==
  /\ [](\A r \in Runs :
         /\ \A op \in StepOps : AtMostOnce(r, op)
         /\ Ended(r) => result[r].status \in {"DONE", "FAILED"})
  /\ [][\A r \in Runs :
          Ended(r) => /\ pc'[r] = pc[r] /\ calls'[r] = calls[r]
                      /\ result'[r] = result[r]]_vars
  /\ []<>(\A r \in Runs : ~Active(r))

\* A run of each worker went through all its steps and ended.
C17_Witness ==
  \E r1 \in Runs, r2 \in Runs :
    /\ kind[r1] = "efs" /\ Done(r1) /\ Len(calls[r1]) = 3
    /\ kind[r2] = "ufs" /\ Ended(r2) /\ Len(calls[r2]) = 4

\* C18. Ready implies seeded: a 'ready' event on the channel was published
\* by a run of update_flame_status for the user it names, after that run's
\* quest upsert, its ensure_first_flame call and its fetch and validation of
\* the day-1 content had returned, and the ritual schema holds the Quest row
\* with slug first-flame-ritual under the run's quest id.
C18_ReadyImpliesSeeded ==
  \A e \in events :
    e.event = "ready" =>
      /\ kind[e.run] = "ufs" /\ e.payload.user_id = user[e.run]
      /\ e.at \in DOMAIN calls[e.run] /\ calls[e.run][e.at].op = "publish_ready"
      /\ Before(e.run, e.at, "quest")
      /\ Before(e.run, e.at, "rpc")
      /\ Before(e.run, e.at, "content")
      /\ \E x \in Rows(quests[RITUAL_SCHEMA]) :
           x.slug = FIRST_FLAME_SLUG /\ x.id = quest_id[e.run]

\* Two runs have each published a 'ready' event.
C18_Witness ==
  \E e1 \in events, e2 \in events :
    e1.event = "ready" /\ e2.event = "ready" /\ e1.run # e2.run

\* C19. At most one notification per run: a run attempts at most one
\* publish, an 'error' right after its failed ensure_first_flame call or
\* content load, or the 'ready' of step 4, and so delivers at most one event.
PublishOps == {"publish_error", "publish_ready"}

Publishes(r) == {i \in DOMAIN calls[r] : calls[r][i].op \in PublishOps}

C19_OnePublishPerRun ==
  \A r \in Runs :
    /\ Cardinality(Publishes(r)) <= 1
    /\ Cardinality({e \in events : e.run = r}) <= 1
    /\ \A i \in Publishes(r) :
         /\ i > 1
         /\ calls[r][i].op = "publish_error" =>
              calls[r][i - 1].op \in {"rpc", "content"} /\ calls[r][i - 1].res # "ok"
         /\ calls[r][i].op = "publish_ready" => calls[r][i - 1] = Call("content", "ok")

\* One run has published an 'error' event and another a 'ready' event.
C19_Witness ==
  \E e1 \in events, e2 \in events :
    e1.event = "error" /\ e2.event = "ready" /\ e1.run # e2.run

\* C20. Retried invocation: an invocation of update_flame_status is run at
\* most 1 + RETRIES times, a run is started again only after it raised
\* (never after DONE), and so the invocation publishes at most one 'ready'
\* event, at most 1 + RETRIES 'error' events, and no 'error' event after its
\* 'ready' event.
RECURSIVE Invocation(_)
Invocation(r) == IF retry_of[r] = 0 THEN r ELSE Invocation(retry_of[r])

RunsOf(i) == {r \in Runs : pc[r] # "idle" /\ Invocation(r) = i}

EventsOf(i, event) == {e \in events : Invocation(e.run) = i /\ e.event = event}

C20_RetriedInvocation ==
  \A i \in Runs :
    (kind[i] = "ufs" /\ retry_of[i] = 0) =>
      /\ Cardinality(RunsOf(i)) <= 1 + RETRIES
      /\ \A n \in RunsOf(i) : retry_of[n] # 0 => result[retry_of[n]].status = "FAILED"
      /\ Cardinality(EventsOf(i, "ready")) <= 1
      /\ Cardinality(EventsOf(i, "error")) <= 1 + RETRIES
      /\ \A e1 \in EventsOf(i, "ready"), e2 \in EventsOf(i, "error") : e2.run < e1.run

====
